---- MODULE Spec2Model ----
(***************************************************************************)
(* Model of compatibility_server/pip_checker.py: one run of               *)
(* _OneshotPipCheck.run(), the command runner it uses and the enrichment   *)
(* loop of _list().  External processes (pip) and the registry (PyPI) are  *)
(* the environment: their exit codes, outputs and responses are chosen     *)
(* nondeterministically from the sets of an environment record.            *)
(***************************************************************************)
EXTENDS Integers, Sequences, FiniteSets, TLC

(***************************************************************************)
(* Bounds                                                                  *)
(***************************************************************************)
MaxPackages == 1        \* length of the requested package list
RunNumNames == 1        \* distinct installed package names, run-level model
RunMaxInstalled == 1    \* length of "pip list" output, run-level model
NumNames == 2           \* distinct installed package names, enrichment model
MaxInstalled == 2       \* length of "pip list" output, enrichment model
MaxOutdated == 2        \* length of "pip list -o" output, enrichment model

NameSeq == <<"a", "b", "c", "d">>
VersionSeq == <<"1", "2">>
ExitCodes == {0, 1}

FirstN(seq, n) == {seq[k] : k \in 1..(IF n < Len(seq) THEN n ELSE Len(seq))}

(***************************************************************************)
(* Python values                                                           *)
(***************************************************************************)
None == [py |-> "None"]
Unbound == [py |-> "unbound"]
EmptyDict == [k \in {} |-> None]

Text(s) == [text |-> s]
Json(doc) == [json |-> doc]
NoFile == [nofile |-> TRUE]

IsNone(v) == DOMAIN v = {"py"} /\ v.py = "None"
IsUnbound(v) == DOMAIN v = {"py"} /\ v.py = "unbound"

DictGet(d, k) == IF k \in DOMAIN d THEN d[k] ELSE None
DictSet(d, k, v) == [x \in (DOMAIN d) \cup {k} |-> IF x = k THEN v ELSE d[x]]

\* truth value of an Optional[list]
Truthy(v) == "list" \in DOMAIN v /\ v.list # <<>>

PYPI_URL == "https://pypi.org/pypi/"

(***************************************************************************)
(* The run's parameters and scratch files                                  *)
(***************************************************************************)
PipCommand == <<"python3", "-m", "pip">>
OutputDirectory == "tmp"

Join(dir, name) == dir \o "/" \o name

FileNames == {"requirements-old.txt", "freeze-error.txt",
              "uninstall-out.txt", "uninstall-error.txt",
              "install-out.txt", "install-error.txt",
              "check-out.txt", "check-error.txt",
              "list-out.txt", "list-error.txt",
              "list-outdate-out.txt", "list-outdate-error.txt"}
Paths == {Join(OutputDirectory, n) : n \in FileNames}

PipErrorOf(command, returncode, stderr_path) ==
    [exc |-> "PipError", command |-> command, returncode |-> returncode,
     stderr_path |-> stderr_path]

PipCheckResult(pkgs, result_type, result_text, dep_info) ==
    [packages |-> pkgs, result_type |-> result_type,
     result_text |-> result_text, dependency_info |-> dep_info]

\* faulty variant: the text of the result is not carried over
with_extra_attrs_no_text(self, dep_info) ==
    PipCheckResult(self.packages, self.result_type, None, dep_info)

\* faulty variant: the dependency report is not attached
with_extra_attrs_no_report(self, dep_info) ==
    PipCheckResult(self.packages, self.result_type, self.result_text,
                   self.dependency_info)

with_extra_attrs(self, dep_info) ==
    PipCheckResult(self.packages, self.result_type, self.result_text, dep_info)

VARIABLES pc, packages, clean, files, completed_command, install_result,
          dependency_info, pip_list_result, outdated_pkgs, pkg_version_date,
          idx, latest_release, installed_release, clock, returned, raised,
          invoked, previous, first

vars == <<pc, packages, clean, files, completed_command, install_result,
          dependency_info, pip_list_result, outdated_pkgs, pkg_version_date,
          idx, latest_release, installed_release, clock, returned, raised,
          invoked, previous, first>>

(***************************************************************************)
(* The environment: what pip and the registry may answer                   *)
(***************************************************************************)
RECURSIVE SortedSeq(_, _)
\* the elements of S in the order of seq (pip lists packages by name)
SortedSeq(seq, S) ==
    IF seq = <<>> THEN <<>>
    ELSE IF Head(seq) \in S THEN <<Head(seq)>> \o SortedSeq(Tail(seq), S)
         ELSE SortedSeq(Tail(seq), S)

SmallSubsets(S, n) == {T \in SUBSET S : Cardinality(T) <= n}

\* "pip list --format=json": objects with name and version, one per name
InstalledDocs(names, versions, n) ==
    UNION {{[k \in 1..Cardinality(T) |->
                [name |-> SortedSeq(NameSeq, T)[k],
                 version |-> f[SortedSeq(NameSeq, T)[k]]]] :
            f \in [T -> versions]} : T \in SmallSubsets(names, n)}

\* "pip list -o --format=json": objects with name and latest_version
OutdatedDocs(names, versions, n) ==
    UNION {{[k \in 1..Cardinality(T) |->
                [name |-> SortedSeq(NameSeq, T)[k],
                 latest_version |-> f[SortedSeq(NameSeq, T)[k]]]] :
            f \in [T -> versions]} : T \in SmallSubsets(names, n)}

\* the upload time the registry holds for one release file
UploadTime(name, version) == [iso |-> name \o "@" \o version]

\* the "releases" field: version -> list of upload records (possibly empty)
ReleaseMaps(name, versions) ==
    UNION {{[v \in T |-> [list |-> IF v \in W
                                   THEN <<[upload_time |-> UploadTime(name, v)]>>
                                   ELSE <<>>]] :
            W \in SUBSET T} : T \in SUBSET versions}

HTTPError == [http |-> "HTTPError"]
URLError == [http |-> "URLError"]
Ok(body) == [http |-> "ok", body |-> body]

\* every answer of GET <PYPI_URL>/<name>/<version>/json
AllResponses(name, versions) ==
    {HTTPError, URLError, Ok([info |-> name])}
        \cup {Ok([info |-> name, releases |-> r]) : r \in ReleaseMaps(name, versions)}

\* the answers used by the run-level model: one of each shape
FewResponses(name, versions) ==
    {HTTPError, URLError, Ok([info |-> name]),
     Ok([info |-> name,
         releases |-> [v \in versions |->
                          [list |-> <<[upload_time |-> UploadTime(name, v)]>>]]])}

RequestedLists(n) == UNION {[1..k -> {"numpy", "six"}] : k \in 1..n}

RunEnv ==
    [packages |-> RequestedLists(MaxPackages),
     clean |-> BOOLEAN,
     rcs |-> ExitCodes,
     texts |-> {"", "x"},
     names |-> FirstN(NameSeq, RunNumNames),
     versions |-> {"1"},
     maxInstalled |-> RunMaxInstalled,
     maxOutdated |-> RunMaxInstalled,
     full |-> FALSE,
     transport |-> TRUE]

ListEnv ==
    [packages |-> {<<"numpy">>},
     clean |-> BOOLEAN,
     rcs |-> ExitCodes,
     texts |-> {"x"},
     names |-> FirstN(NameSeq, NumNames),
     versions |-> FirstN(VersionSeq, 2),
     maxInstalled |-> MaxInstalled,
     maxOutdated |-> MaxOutdated,
     full |-> TRUE,
     transport |-> TRUE]

\* the enrichment model with a registry that answers every request
HttpEnv == [ListEnv EXCEPT !.transport = FALSE]

\* during a second call of check(), what the environment answered to the
\* same request of the first call (the environment has not changed)
Replaying == Len(invoked) < Len(previous)
Replayed(field) ==
    {e[field] : e \in {x \in {previous[Len(invoked) + 1]} : field \in DOMAIN x}}

Responses(E, name) ==
    IF Replaying THEN Replayed("answer")
    ELSE (IF E.full THEN AllResponses(name, E.versions)
          ELSE FewResponses(name, E.versions))
            \ (IF E.transport THEN {} ELSE {URLError})

\* what one external process does: exit code and the two streams
Procs(E, outs) ==
    IF Replaying THEN Replayed("proc")
    ELSE {[returncode |-> rc, out |-> o, err |-> Text(e)] :
            rc \in E.rcs, o \in outs, e \in E.texts}

TextOuts(E) == {Text(t) : t \in E.texts}

(***************************************************************************)
(* Result kinds (PipCheckResultType)                                       *)
(***************************************************************************)
SUCCESS == "success"
INSTALL_ERROR == "install_error"
CHECK_WARNING == "check_warning"

(***************************************************************************)
(* Helpers of _OneshotPipCheck                                             *)
(***************************************************************************)
\* faulty variant: a non-zero exit code raises whatever the flag says
run_command_ignores_flag(fs, command, stdout_path, stderr_path, raise_on_failure, proc) ==
    [files |-> [fs EXCEPT ![stdout_path] = proc.out, ![stderr_path] = proc.err],
     raises |-> proc.returncode # 0,
     error |-> IF proc.returncode # 0
               THEN PipErrorOf(command, proc.returncode, stderr_path)
               ELSE None,
     value |-> IF proc.returncode # 0 THEN None ELSE [rc |-> proc.returncode],
     call |-> [command |-> command, stdout_path |-> stdout_path,
               stderr_path |-> stderr_path,
               raise_on_failure |-> raise_on_failure,
               returncode |-> proc.returncode]]

\* faulty variant: the exit code is returned whatever the flag says
run_command_never_raises(fs, command, stdout_path, stderr_path, raise_on_failure, proc) ==
    [files |-> [fs EXCEPT ![stdout_path] = proc.out, ![stderr_path] = proc.err],
     raises |-> FALSE,
     error |-> None,
     value |-> [rc |-> proc.returncode],
     call |-> [command |-> command, stdout_path |-> stdout_path,
               stderr_path |-> stderr_path,
               raise_on_failure |-> raise_on_failure,
               returncode |-> proc.returncode]]

\* faulty variant: the error points at the standard-output file
run_command_error_names_stdout(fs, command, stdout_path, stderr_path, raise_on_failure, proc) ==
    [files |-> [fs EXCEPT ![stdout_path] = proc.out, ![stderr_path] = proc.err],
     raises |-> proc.returncode # 0 /\ raise_on_failure,
     error |-> IF proc.returncode # 0 /\ raise_on_failure
               THEN PipErrorOf(command, proc.returncode, stdout_path)
               ELSE None,
     value |-> IF proc.returncode # 0 /\ raise_on_failure THEN None
               ELSE [rc |-> proc.returncode],
     call |-> [command |-> command, stdout_path |-> stdout_path,
               stderr_path |-> stderr_path,
               raise_on_failure |-> raise_on_failure,
               returncode |-> proc.returncode]]

\* _run_command: both files are opened for writing (created or truncated),
\* the process writes its streams into them, and the exit code decides
\* between raising and returning.
run_command(fs, command, stdout_path, stderr_path, raise_on_failure, proc) ==
    LET opened == [fs EXCEPT ![stdout_path] = Text(""), ![stderr_path] = Text("")]
        written == [opened EXCEPT ![stdout_path] = proc.out,
                                  ![stderr_path] = proc.err]
        raises == proc.returncode # 0 /\ raise_on_failure
    IN  [files |-> written,
         raises |-> raises,
         error |-> IF raises
                   THEN PipErrorOf(command, proc.returncode, stderr_path)
                   ELSE None,
         value |-> IF raises THEN None ELSE [rc |-> proc.returncode],
         call |-> [command |-> command, stdout_path |-> stdout_path,
                   stderr_path |-> stderr_path,
                   raise_on_failure |-> raise_on_failure,
                   returncode |-> proc.returncode]]

\* what completed_command records of one call of _run_command
Completed(r) ==
    [call |-> r.call, raises |-> r.raises, error |-> r.error, value |-> r.value]

\* _call_pypi_json_api: HTTPError is caught and gives None, any other
\* failure of urlopen propagates
call_pypi_json_api(pkg_name, pkg_version, resp) ==
    [url |-> PYPI_URL \o pkg_name \o "/" \o pkg_version \o "/json",
     raises |-> resp.http = "URLError",
     value |-> IF resp.http = "ok" THEN resp.body ELSE None]

build_command(subcommands) == PipCommand \o subcommands

read(fs, path) == fs[path]

\* faulty variant: the size of the file is not looked at
NonEmpty_always(fs, path) == TRUE

\* os.path.getsize(path) > 0
NonEmpty(fs, path) == fs[path] # Text("")

\* json.loads: only a JSON document parses
json_loads(content) ==
    [raises |-> ~("json" \in DOMAIN content),
     value |-> IF "json" \in DOMAIN content THEN content.json ELSE <<>>]

RECURSIVE OutdatedPkgs(_, _)
\* lines 303-308: the dict name -> latest_version, later entries overwrite
OutdatedPkgs(doc, acc) ==
    IF doc = <<>> THEN acc
    ELSE OutdatedPkgs(Tail(doc),
                      DictSet(acc, Head(doc).name, Head(doc).latest_version))

\* the log of external steps: what was invoked and what the environment did
Invoke(step, what, proc) ==
    Append(invoked, [step |-> step, what |-> what, proc |-> proc])
\* faulty variant: each package costs two requests
Lookup_twice(url, pkg_name, resp) ==
    Append(Append(invoked, [step |-> "pypi", what |-> url, name |-> pkg_name,
                            answer |-> resp]),
           [step |-> "pypi", what |-> url, name |-> pkg_name, answer |-> resp])

Lookup(url, pkg_name, resp) ==
    Append(invoked, [step |-> "pypi", what |-> url, name |-> pkg_name,
                     answer |-> resp])

Raise(e) ==
    /\ pc' = "raised"
    /\ raised' = e

Return(result) ==
    /\ pc' = "done"
    /\ returned' = result

(***************************************************************************)
(* Initial state: a constructed _OneshotPipCheck, run() not yet started    *)
(***************************************************************************)
InitOf(E) ==
    /\ pc = "run"
    /\ packages \in E.packages
    /\ clean \in E.clean
    /\ files = [p \in Paths |-> NoFile]
    /\ completed_command = None
    /\ install_result = None
    /\ dependency_info = None
    /\ pip_list_result = <<>>
    /\ outdated_pkgs = EmptyDict
    /\ pkg_version_date = EmptyDict
    /\ idx = 1
    /\ latest_release = Unbound
    /\ installed_release = Unbound
    /\ clock = 0
    /\ returned = None
    /\ raised = None
    /\ invoked = <<>>
    /\ previous = <<>>
    /\ first = None

(***************************************************************************)
(* run(), one action per external step                                     *)
(***************************************************************************)
\* lines 357-358: the scratch directory, then the clean flag
mkdtemp(E) ==
    /\ pc = "run"
    /\ pc' = IF clean THEN "freeze" ELSE "install"
    /\ UNCHANGED <<previous, first, packages, clean, files, completed_command, install_result,
                   dependency_info, pip_list_result, outdated_pkgs,
                   pkg_version_date, idx, latest_release, installed_release,
                   clock, returned, raised, invoked>>

\* lines 359-362 with _freeze
freeze(E) ==
    /\ pc = "freeze"
    /\ \E proc \in Procs(E, TextOuts(E)) :
        LET requirements_old_file_path ==
                Join(OutputDirectory, "requirements-old.txt")
            command == build_command(<<"freeze">>)
            std_err_path == Join(OutputDirectory, "freeze-error.txt")
            r == run_command(files, command, requirements_old_file_path,
                             std_err_path, TRUE, proc)
        IN  /\ files' = r.files
            /\ completed_command' = Completed(r)
            /\ invoked' = Invoke("freeze", command, proc)
            /\ IF r.raises
               THEN Raise(r.error) /\ UNCHANGED returned
               ELSE /\ pc' = IF NonEmpty(r.files, requirements_old_file_path)
                             THEN "uninstall" ELSE "install"
                    /\ UNCHANGED <<raised, returned>>
    /\ UNCHANGED <<previous, first, packages, clean, install_result, dependency_info,
                   pip_list_result, outdated_pkgs, pkg_version_date, idx,
                   latest_release, installed_release, clock>>

\* line 363 with _uninstall
uninstall(E) ==
    /\ pc = "uninstall"
    /\ \E proc \in Procs(E, TextOuts(E)) :
        LET requirements_file_path ==
                Join(OutputDirectory, "requirements-old.txt")
            std_out_path == Join(OutputDirectory, "uninstall-out.txt")
            std_err_path == Join(OutputDirectory, "uninstall-error.txt")
            command == build_command(
                <<"uninstall", "--yes", "-r", requirements_file_path>>)
            r == run_command(files, command, std_out_path, std_err_path,
                             TRUE, proc)
        IN  /\ files' = r.files
            /\ completed_command' = Completed(r)
            /\ invoked' = Invoke("uninstall", command, proc)
            /\ IF r.raises
               THEN Raise(r.error) /\ UNCHANGED returned
               ELSE pc' = "install" /\ UNCHANGED <<raised, returned>>
    /\ UNCHANGED <<previous, first, packages, clean, install_result, dependency_info,
                   pip_list_result, outdated_pkgs, pkg_version_date, idx,
                   latest_release, installed_release, clock>>

\* faulty variant: the text of an install error is read from the standard output
install_step_reads_stdout(fs, pkgs, proc) ==
    LET std_out_path == Join(OutputDirectory, "install-out.txt")
        std_err_path == Join(OutputDirectory, "install-error.txt")
        command == build_command(<<"install", "-U">> \o pkgs)
        r == run_command(fs, command, std_out_path, std_err_path, FALSE, proc)
    IN  [run |-> r,
         result |-> IF r.raises THEN None
                    ELSE IF r.value.rc # 0
                    THEN PipCheckResult(pkgs, INSTALL_ERROR,
                                        read(r.files, std_out_path), None)
                    ELSE PipCheckResult(pkgs, SUCCESS, None, None)]

\* faulty variant: a failed install is reported as a success, so the run goes on
install_step_error_as_success(fs, pkgs, proc) ==
    LET std_out_path == Join(OutputDirectory, "install-out.txt")
        std_err_path == Join(OutputDirectory, "install-error.txt")
        command == build_command(<<"install", "-U">> \o pkgs)
        r == run_command(fs, command, std_out_path, std_err_path, FALSE, proc)
    IN  [run |-> r,
         result |-> IF r.raises THEN None
                    ELSE PipCheckResult(pkgs, SUCCESS, None, None)]

\* _install: the result of the install step
install_step(fs, pkgs, proc) ==
    LET std_out_path == Join(OutputDirectory, "install-out.txt")
        std_err_path == Join(OutputDirectory, "install-error.txt")
        command == build_command(<<"install", "-U">> \o pkgs)
        r == run_command(fs, command, std_out_path, std_err_path, FALSE, proc)
    IN  [run |-> r,
         result |-> IF r.raises THEN None
                    ELSE IF r.value.rc # 0
                    THEN PipCheckResult(pkgs, INSTALL_ERROR,
                                        read(r.files, std_err_path), None)
                    ELSE PipCheckResult(pkgs, SUCCESS, None, None)]

\* lines 364-374 when the install fails: dependency_info stays None, no
\* check, the install result is returned
install(E) ==
    /\ pc = "install"
    /\ \E proc \in Procs(E, TextOuts(E)) :
        LET s == install_step(files, packages, proc)
        IN  /\ files' = s.run.files
            /\ completed_command' = Completed(s.run)
            /\ invoked' = Invoke("install", s.run.call.command, proc)
            /\ IF s.run.raises
               THEN /\ Raise(s.run.error)
                    /\ UNCHANGED <<install_result, returned>>
               ELSE /\ install_result' = s.result
                    /\ UNCHANGED raised
                    /\ IF s.result.result_type # INSTALL_ERROR
                       THEN pc' = "list" /\ UNCHANGED returned
                       ELSE IF s.result.result_type = SUCCESS
                       THEN pc' = "check" /\ UNCHANGED returned
                       ELSE Return(with_extra_attrs(s.result,
                                                    dependency_info))
    /\ UNCHANGED <<previous, first, packages, clean, dependency_info, pip_list_result,
                   outdated_pkgs, pkg_version_date, idx, latest_release,
                   installed_release, clock>>

\* lines 368-370: _list() has returned its dict
ListReturns(dep) ==
    /\ dependency_info' = dep
    /\ IF install_result.result_type = SUCCESS
       THEN pc' = "check" /\ UNCHANGED returned
       ELSE Return(with_extra_attrs(install_result, dep))

\* _list, lines 279-289: "pip list --format=json" and its parse
list(E) ==
    /\ pc = "list"
    /\ \E proc \in Procs(E, TextOuts(E) \cup
                {Json(d) : d \in InstalledDocs(E.names, E.versions,
                                               E.maxInstalled)}) :
        LET std_out_path == Join(OutputDirectory, "list-out.txt")
            std_err_path == Join(OutputDirectory, "list-error.txt")
            command == build_command(<<"list", "--format=json">>)
            r == run_command(files, command, std_out_path, std_err_path,
                             FALSE, proc)
            parsed == json_loads(read(r.files, std_out_path))
        IN  /\ files' = r.files
            /\ completed_command' = Completed(r)
            /\ invoked' = Invoke("list", command, proc)
            /\ IF r.raises
               THEN /\ Raise(r.error)
                    /\ UNCHANGED pip_list_result
               ELSE IF parsed.raises
               THEN /\ Raise([exc |-> "JSONDecodeError"])
                    /\ UNCHANGED pip_list_result
               ELSE /\ pc' = "list_o"
                    /\ pip_list_result' = parsed.value
                    /\ UNCHANGED raised
    /\ UNCHANGED <<previous, first, packages, clean, install_result, dependency_info,
                   outdated_pkgs, pkg_version_date, idx, latest_release,
                   installed_release, clock, returned>>

\* _list, lines 291-308: "pip list -o --format=json", its parse and the
\* dict of outdated packages; with nothing installed the loop of line 310
\* is empty and _list returns at once
list_outdated(E) ==
    /\ pc = "list_o"
    /\ \E proc \in Procs(E, TextOuts(E) \cup
                {Json(d) : d \in OutdatedDocs(E.names, E.versions,
                                              E.maxOutdated)}) :
        LET std_out_path == Join(OutputDirectory, "list-outdate-out.txt")
            std_err_path == Join(OutputDirectory, "list-outdate-error.txt")
            command == build_command(<<"list", "-o", "--format=json">>)
            r == run_command(files, command, std_out_path, std_err_path,
                             FALSE, proc)
            parsed == json_loads(read(r.files, std_out_path))
        IN  /\ files' = r.files
            /\ completed_command' = Completed(r)
            /\ invoked' = Invoke("list -o", command, proc)
            /\ IF r.raises
               THEN /\ Raise(r.error)
                    /\ UNCHANGED <<outdated_pkgs, dependency_info, returned>>
               ELSE IF parsed.raises
               THEN /\ Raise([exc |-> "JSONDecodeError"])
                    /\ UNCHANGED <<outdated_pkgs, dependency_info, returned>>
               ELSE /\ outdated_pkgs' = OutdatedPkgs(parsed.value, EmptyDict)
                    /\ UNCHANGED raised
                    /\ IF pip_list_result = <<>>
                       THEN ListReturns(pkg_version_date)
                       ELSE /\ pc' = "list_loop"
                            /\ UNCHANGED <<dependency_info, returned>>
    /\ UNCHANGED <<previous, first, packages, clean, install_result, pip_list_result,
                   pkg_version_date, idx, latest_release, installed_release,
                   clock>>

\* faulty variant: a package listed as outdated is never the latest
Reconcile_by_presence(pkg, outdated) ==
    LET listed == pkg.name \in DOMAIN outdated
    IN  [pkg_name |-> pkg.name,
         installed_version |-> pkg.version,
         latest_version |-> IF listed THEN outdated[pkg.name] ELSE pkg.version,
         is_latest |-> ~listed]

\* faulty variant: the freshness flag starts false
Reconcile_default_false(pkg, outdated) ==
    LET listed == pkg.name \in DOMAIN outdated
    IN  [pkg_name |-> pkg.name,
         installed_version |-> pkg.version,
         latest_version |-> IF listed THEN outdated[pkg.name] ELSE pkg.version,
         is_latest |-> listed /\ outdated[pkg.name] = pkg.version]

\* lines 311-321: the versions and the freshness flag of one installed package
Reconcile(pkg, outdated) ==
    LET pkg_name == pkg.name
        installed_version == pkg.version
        listed == pkg_name \in DOMAIN outdated
        latest_version == IF listed THEN outdated[pkg_name]
                          ELSE installed_version
    IN  [pkg_name |-> pkg_name,
         installed_version |-> installed_version,
         latest_version |-> latest_version,
         is_latest |-> ~(listed /\ latest_version # installed_version)]

\* faulty variant: the installed release is looked up under the version the
\* request named
ReleaseTimes_of_requested_version(result, rec, prev_latest, prev_installed) ==
    LET has == ~IsNone(result) /\ "releases" \in DOMAIN result
        latest == IF has THEN DictGet(result.releases, rec.latest_version)
                  ELSE prev_latest
        installed == IF has
                     THEN DictGet(result.releases, rec.latest_version)
                     ELSE prev_installed
    IN  [latest_release |-> latest,
         installed_release |-> installed,
         raises |-> ~IsNone(result) /\ IsUnbound(latest),
         latest_version_time |->
             IF ~IsNone(result) /\ Truthy(latest)
             THEN DictGet(latest.list[1], "upload_time") ELSE None,
         installed_version_time |->
             IF ~IsNone(result) /\ Truthy(installed)
             THEN DictGet(installed.list[1], "upload_time") ELSE None]

\* lines 328-340: the release locals and the two times, from the lookup's
\* result and the locals as the previous iteration left them
ReleaseTimes(result, rec, prev_latest, prev_installed) ==
    LET has == ~IsNone(result) /\ "releases" \in DOMAIN result
        latest == IF has THEN DictGet(result.releases, rec.latest_version)
                  ELSE prev_latest
        installed == IF has
                     THEN DictGet(result.releases, rec.installed_version)
                     ELSE prev_installed
    IN  [latest_release |-> latest,
         installed_release |-> installed,
         raises |-> ~IsNone(result) /\ IsUnbound(latest),
         latest_version_time |->
             IF ~IsNone(result) /\ Truthy(latest)
             THEN DictGet(latest.list[1], "upload_time") ELSE None,
         installed_version_time |->
             IF ~IsNone(result) /\ Truthy(installed)
             THEN DictGet(installed.list[1], "upload_time") ELSE None]

\* faulty variant: the entry reports the latest version as the installed one
PkgInfo_installed_from_outdated(rec, times, now) ==
    [installed_version |-> rec.latest_version,
     installed_version_time |-> times.installed_version_time,
     latest_version |-> rec.latest_version,
     current_time |-> now,
     latest_version_time |-> times.latest_version_time,
     is_latest |-> rec.is_latest]

\* faulty variant: the observation time is stored as a release time
PkgInfo_observed_as_release(rec, times, now) ==
    [installed_version |-> rec.installed_version,
     installed_version_time |-> [observed |-> now],
     latest_version |-> rec.latest_version,
     current_time |-> now,
     latest_version_time |-> times.latest_version_time,
     is_latest |-> rec.is_latest]

\* lines 342-349
PkgInfo(rec, times, now) ==
    [installed_version |-> rec.installed_version,
     installed_version_time |-> times.installed_version_time,
     latest_version |-> rec.latest_version,
     current_time |-> now,
     latest_version_time |-> times.latest_version_time,
     is_latest |-> rec.is_latest]

\* _list, lines 310-353: one iteration of the loop over the installed
\* packages, with its registry lookup; after the last one _list returns
list_loop(E) ==
    /\ pc = "list_loop"
    /\ LET rec == Reconcile(pip_list_result[idx], outdated_pkgs)
       IN \E resp \in Responses(E, rec.pkg_name) :
            LET call == call_pypi_json_api(rec.pkg_name, rec.latest_version,
                                           resp)
                times == ReleaseTimes(call.value, rec, latest_release,
                                      installed_release)
                info == PkgInfo(rec, times, clock)
                report == DictSet(pkg_version_date, rec.pkg_name, info)
            IN  /\ invoked' = Lookup(call.url, rec.pkg_name, resp)
                /\ IF call.raises
                   THEN /\ Raise([exc |-> "URLError"])
                        /\ UNCHANGED <<pkg_version_date, idx, latest_release,
                                       installed_release, clock,
                                       dependency_info, returned>>
                   ELSE IF times.raises
                   THEN /\ Raise([exc |-> "UnboundLocalError"])
                        /\ UNCHANGED <<pkg_version_date, idx, latest_release,
                                       installed_release, clock,
                                       dependency_info, returned>>
                   ELSE /\ pkg_version_date' = report
                        /\ latest_release' = times.latest_release
                        /\ installed_release' = times.installed_release
                        /\ clock' = clock + 1
                        /\ idx' = idx + 1
                        /\ UNCHANGED raised
                        /\ IF idx = Len(pip_list_result)
                           THEN ListReturns(report)
                           ELSE UNCHANGED <<pc, dependency_info, returned>>
    /\ UNCHANGED <<previous, first, packages, clean, files, completed_command, install_result,
                   pip_list_result, outdated_pkgs>>

\* faulty variant: the text of a check warning is read from the standard error
check_step_reads_stderr(fs, pkgs, proc) ==
    LET std_out_path == Join(OutputDirectory, "check-out.txt")
        std_err_path == Join(OutputDirectory, "check-error.txt")
        command == build_command(<<"check">>)
        r == run_command(fs, command, std_out_path, std_err_path, FALSE, proc)
    IN  [run |-> r,
         result |-> IF r.raises THEN None
                    ELSE IF r.value.rc # 0
                    THEN PipCheckResult(pkgs, CHECK_WARNING,
                                        read(r.files, std_err_path), None)
                    ELSE PipCheckResult(pkgs, SUCCESS, None, None)]

\* _check: the result of the consistency check
check_step(fs, pkgs, proc) ==
    LET std_out_path == Join(OutputDirectory, "check-out.txt")
        std_err_path == Join(OutputDirectory, "check-error.txt")
        command == build_command(<<"check">>)
        r == run_command(fs, command, std_out_path, std_err_path, FALSE, proc)
    IN  [run |-> r,
         result |-> IF r.raises THEN None
                    ELSE IF r.value.rc # 0
                    THEN PipCheckResult(pkgs, CHECK_WARNING,
                                        read(r.files, std_out_path), None)
                    ELSE PipCheckResult(pkgs, SUCCESS, None, None)]

\* lines 371-374: the check replaces the install result, which is returned
\* with the dependency report
check(E) ==
    /\ pc = "check"
    /\ \E proc \in Procs(E, TextOuts(E)) :
        LET s == check_step(files, packages, proc)
        IN  /\ files' = s.run.files
            /\ completed_command' = Completed(s.run)
            /\ invoked' = Invoke("check", s.run.call.command, proc)
            /\ IF s.run.raises
               THEN /\ Raise(s.run.error)
                    /\ UNCHANGED <<install_result, returned>>
               ELSE /\ install_result' = s.result
                    /\ Return(with_extra_attrs(s.result, dependency_info))
                    /\ UNCHANGED raised
    /\ UNCHANGED <<previous, first, packages, clean, dependency_info, pip_list_result,
                   outdated_pkgs, pkg_version_date, idx, latest_release,
                   installed_release, clock>>

NextOf(E) ==
    \/ mkdtemp(E)
    \/ freeze(E)
    \/ uninstall(E)
    \/ install(E)
    \/ list(E)
    \/ list_outdated(E)
    \/ list_loop(E)
    \/ check(E)

\* the run-level model: every stream and exit code, few packages
Init == InitOf(RunEnv)
Next == NextOf(RunEnv)
Spec == Init /\ [][Next]_vars

\* the enrichment model: every installed list, outdated list and response
InitList == InitOf(ListEnv)
NextList == NextOf(ListEnv)
SpecList == InitList /\ [][NextList]_vars

\* lines 377-400: check() is called a second time with the same arguments,
\* on a new _OneshotPipCheck with a new scratch directory; the outcome and
\* the log of the first call are kept for comparison, the clock goes on
rerun(E) ==
    /\ pc \in {"done", "raised"}
    /\ IsNone(first)
    /\ first' = [returned |-> returned, raised |-> raised]
    /\ previous' = invoked
    /\ pc' = "run"
    /\ files' = [p \in Paths |-> NoFile]
    /\ completed_command' = None
    /\ install_result' = None
    /\ dependency_info' = None
    /\ pip_list_result' = <<>>
    /\ outdated_pkgs' = EmptyDict
    /\ pkg_version_date' = EmptyDict
    /\ idx' = 1
    /\ latest_release' = Unbound
    /\ installed_release' = Unbound
    /\ returned' = None
    /\ raised' = None
    /\ invoked' = <<>>
    /\ UNCHANGED <<packages, clean, clock>>

\* the environment of the second call is the one of the first: every
\* command and every lookup gets the answer it got before
Replay ==
    \/ Len(invoked') = Len(invoked)
    \/ Len(invoked') > Len(previous)
    \/ invoked'[Len(invoked')] = previous[Len(invoked')]

\* the enrichment run twice: every list and response, commands that exit
\* zero
TwiceEnv == [HttpEnv EXCEPT !.rcs = {0}]
InitTwice == InitOf(TwiceEnv)
NextTwice ==
    \/ mkdtemp(TwiceEnv) /\ Replay
    \/ freeze(TwiceEnv) /\ Replay
    \/ uninstall(TwiceEnv) /\ Replay
    \/ install(TwiceEnv) /\ Replay
    \/ list(TwiceEnv) /\ Replay
    \/ list_outdated(TwiceEnv) /\ Replay
    \/ list_loop(TwiceEnv) /\ Replay
    \/ check(TwiceEnv) /\ Replay
    \/ rerun(TwiceEnv)
SpecTwice == InitTwice /\ [][NextTwice]_vars

InitHttp == InitOf(HttpEnv)
NextHttp == NextOf(HttpEnv)
SpecHttp == InitHttp /\ [][NextHttp]_vars

(***************************************************************************)
(* Observations used by the properties                                     *)
(***************************************************************************)
Steps(step) == {k \in 1..Len(invoked) : invoked[k].step = step}
Ran(step) == Steps(step) # {}
\* what the environment did at the (only) invocation of a pip step
ProcOf(step) == invoked[CHOOSE k \in Steps(step) : TRUE].proc
ExitOf(step) == ProcOf(step).returncode
LastStep == invoked[Len(invoked)]

InstallFailed == Ran("install") /\ ExitOf("install") # 0
InstallOk == Ran("install") /\ ExitOf("install") = 0

\* C1: when the install command exits non-zero, the run returns a result of
\* kind INSTALL_ERROR, without dependency report, whose text is the standard
\* error the install command wrote (not its standard output).
C1_InstallError ==
    InstallFailed =>
        /\ pc = "done"
        /\ returned.result_type = INSTALL_ERROR
        /\ IsNone(returned.dependency_info)
        /\ returned.result_text = ProcOf("install").err

C1_Witness ==
    /\ pc = "done"
    /\ InstallFailed
    /\ clean
    /\ ProcOf("install").err # ProcOf("install").out
    /\ returned.result_text = Text("x")

\* C2: when the install command exits zero and the check command exits
\* non-zero, the returned result is a CHECK_WARNING whose text is the
\* standard output of the check command.
C2_CheckWarning ==
    (InstallOk /\ Ran("check") /\ ExitOf("check") # 0) =>
        /\ pc = "done"
        /\ returned.result_type = CHECK_WARNING
        /\ returned.result_text = ProcOf("check").out

C2_Witness ==
    /\ pc = "done"
    /\ InstallOk
    /\ Ran("check") /\ ExitOf("check") # 0
    /\ ProcOf("check").out # ProcOf("check").err
    /\ ProcOf("check").out # ProcOf("install").out
    /\ ProcOf("check").out # ProcOf("install").err
    /\ returned.result_text = Text("x")

\* C3: when install and check both exit zero the returned result is SUCCESS
\* with no text; and a returned result without text is a SUCCESS.
C3_Success ==
    /\ (InstallOk /\ Ran("check") /\ ExitOf("check") = 0) =>
            /\ pc = "done"
            /\ returned.result_type = SUCCESS
            /\ IsNone(returned.result_text)
    /\ (pc = "done" /\ IsNone(returned.result_text)) =>
            returned.result_type = SUCCESS

C3_Witness ==
    /\ pc = "done"
    /\ InstallOk
    /\ Ran("check") /\ ExitOf("check") = 0
    /\ ProcOf("check").out = Text("x")
    /\ IsNone(returned.result_text)

\* C4: a returned result has a dependency report exactly when its kind is
\* not INSTALL_ERROR; the report is the one _list built before the check
\* ran; its packages are the requested packages.
C4_ReportIffInstalled ==
    pc = "done" =>
        /\ ~IsNone(returned.dependency_info)
                <=> returned.result_type # INSTALL_ERROR
        /\ returned.packages = packages
        /\ returned.result_type # INSTALL_ERROR =>
                /\ returned.dependency_info = pkg_version_date
                /\ Ran("list") /\ Ran("list -o")
                /\ \A k \in Steps("list") \cup Steps("list -o") \cup Steps("pypi") :
                        \A c \in Steps("check") : k < c

C4_Witness ==
    /\ pc = "done"
    /\ returned.result_type = CHECK_WARNING
    /\ returned.dependency_info # EmptyDict
    /\ ~IsNone(returned.dependency_info)

PipSteps == {k \in 1..Len(invoked) : invoked[k].step # "pypi"}
\* the last pip command the run invoked
LastPip == invoked[CHOOSE k \in PipSteps : \A j \in PipSteps : j <= k]

UninstallCommand ==
    PipCommand \o <<"uninstall", "--yes", "-r", "tmp/requirements-old.txt">>

C6_UninstallFatal ==
    \A k \in Steps("uninstall") :
        invoked[k].proc.returncode # 0 =>
            /\ pc = "raised"
            /\ raised = [exc |-> "PipError",
                         command |-> UninstallCommand,
                         returncode |-> invoked[k].proc.returncode,
                         stderr_path |-> "tmp/uninstall-error.txt"]
            /\ files["tmp/uninstall-error.txt"] = invoked[k].proc.err
            /\ IsNone(returned)
            /\ k = Len(invoked)

C6_Witness ==
    /\ pc = "raised"
    /\ clean
    /\ Ran("freeze") /\ ProcOf("freeze").out # Text("")
    /\ Ran("uninstall") /\ ExitOf("uninstall") # 0
    /\ ~Ran("install")

\* C7: the command runner raises a PipError with the command, exit code and
\* standard-error path when the flag is set and the exit code is non-zero,
\* returns 0 when the flag is set and the exit code is zero, returns the exit
\* code when the flag is not set; both files hold the streams in every case.
C7_RunCommand ==
    ~IsNone(completed_command) =>
        LET c == completed_command
            a == completed_command.call
            e == LastPip
        IN  /\ a.command = e.what
            /\ a.returncode = e.proc.returncode
            /\ (a.raise_on_failure /\ a.returncode # 0) =>
                    /\ c.raises
                    /\ c.error = [exc |-> "PipError", command |-> e.what,
                                  returncode |-> e.proc.returncode,
                                  stderr_path |-> a.stderr_path]
                    /\ pc = "raised" /\ raised = c.error
            /\ (a.raise_on_failure /\ a.returncode = 0) =>
                    ~c.raises /\ c.value = [rc |-> 0]
            /\ ~a.raise_on_failure =>
                    ~c.raises /\ c.value = [rc |-> a.returncode]
            /\ a.stdout_path # a.stderr_path
            /\ files[a.stdout_path] = e.proc.out
            /\ files[a.stderr_path] = e.proc.err

C7_Witness ==
    /\ ~IsNone(completed_command)
    /\ completed_command.raises
    /\ completed_command.call.raise_on_failure
    /\ completed_command.call.returncode = 1
    /\ completed_command.error.stderr_path = "tmp/uninstall-error.txt"
    /\ files["tmp/uninstall-out.txt"] # NoFile

\* what pip printed: the installed list and the outdated list
InstalledDoc == ProcOf("list").out.json
OutdatedDoc == ProcOf("list -o").out.json
InstalledNames == {InstalledDoc[k].name : k \in 1..Len(InstalledDoc)}
OutdatedNames == {OutdatedDoc[k].name : k \in 1..Len(OutdatedDoc)}
InstalledVersion(n) ==
    InstalledDoc[CHOOSE k \in 1..Len(InstalledDoc) : InstalledDoc[k].name = n].version

\* the report the caller gets, or the one under construction
Report ==
    IF pc = "done" /\ ~IsNone(returned.dependency_info)
    THEN returned.dependency_info ELSE pkg_version_date

\* C8: every entry of the dependency report has is_latest equal to
\* (installed_version = latest_version); an entry of a package in the
\* outdated list carries that list's latest_version, with is_latest true
\* when it equals the installed version and false otherwise.
C8_IsLatestByValue ==
    \A n \in DOMAIN Report :
        /\ Report[n].is_latest
                = (Report[n].installed_version = Report[n].latest_version)
        /\ \A k \in 1..Len(OutdatedDoc) :
                OutdatedDoc[k].name = n =>
                    /\ Report[n].latest_version = OutdatedDoc[k].latest_version
                    /\ Report[n].is_latest
                        = (OutdatedDoc[k].latest_version = InstalledVersion(n))

C8_Witness ==
    /\ pc = "done"
    /\ \E n \in DOMAIN Report :
        /\ n \in OutdatedNames
        /\ Report[n].latest_version = InstalledVersion(n)
        /\ Report[n].is_latest
    /\ \E n \in DOMAIN Report :
        /\ n \in OutdatedNames
        /\ Report[n].latest_version # InstalledVersion(n)
        /\ ~Report[n].is_latest

\* C9: the entry of an installed package that the outdated list does not
\* name has latest_version = installed_version and is_latest true.
C9_UnlistedIsLatest ==
    \A n \in DOMAIN Report :
        n \notin OutdatedNames =>
            /\ Report[n].installed_version = InstalledVersion(n)
            /\ Report[n].latest_version = InstalledVersion(n)
            /\ Report[n].is_latest

C9_Witness ==
    /\ pc = "done"
    /\ Ran("list -o")
    /\ OutdatedNames # {}
    /\ \E n \in DOMAIN Report :
        /\ n \notin OutdatedNames
        /\ Report[n].is_latest
        /\ Report[n].latest_version = "2"

\* C10: after a lookup that the registry answered with not-found, the
\* package has its entry with null release times, the run has not raised,
\* and once the loop is over every installed package has an entry.
C10_NotFoundHarmless ==
    \A k \in Steps("pypi") :
        invoked[k].answer = HTTPError =>
            /\ pc # "raised"
            /\ invoked[k].name \in DOMAIN Report
            /\ IsNone(Report[invoked[k].name].installed_version_time)
            /\ IsNone(Report[invoked[k].name].latest_version_time)
            /\ pc \in {"check", "done"} => DOMAIN Report = InstalledNames

\* a lookup that the registry answered with a document without "releases"
LacksReleases(k) ==
    /\ invoked[k].answer.http = "ok"
    /\ ~("releases" \in DOMAIN invoked[k].answer.body)

\* C11: after a lookup answered with a well-formed document that lacks the
\* "releases" field, the run has not raised and the package has its entry
\* with both release times null, at whatever position of the installed list
\* and whatever the earlier answers were.
C11_NoReleasesNullTimes ==
    \A k \in Steps("pypi") :
        LacksReleases(k) =>
            /\ pc # "raised"
            /\ invoked[k].name \in DOMAIN Report
            /\ IsNone(Report[invoked[k].name].installed_version_time)
            /\ IsNone(Report[invoked[k].name].latest_version_time)

\* a sub-query of the enrichment failed: a listing exited non-zero or a
\* registry lookup did not get a document
SubQueryFailed ==
    \/ Ran("list") /\ ExitOf("list") # 0
    \/ Ran("list -o") /\ ExitOf("list -o") # 0
    \/ \E k \in Steps("pypi") : invoked[k].answer.http # "ok"

\* C12: after a successful install a failed sub-query of the enrichment
\* (a listing that exits non-zero, a registry lookup that fails for any
\* reason) never aborts the run: the run does not raise, and when it ends the
\* check has run and a result is returned.
C12_EnrichmentNeverAborts ==
    (InstallOk /\ SubQueryFailed) =>
        /\ pc # "raised"
        /\ pc = "done" => Ran("check") /\ ~IsNone(returned)

\* a snapshot without its observation time
Strip(info) == [f \in (DOMAIN info) \ {"current_time"} |-> info[f]]

SameReport(r1, r2) ==
    IF IsNone(r1) \/ IsNone(r2) THEN IsNone(r1) /\ IsNone(r2)
    ELSE /\ DOMAIN r1 = DOMAIN r2
         /\ \A n \in DOMAIN r1 : Strip(r1[n]) = Strip(r2[n])

SecondRunOver == ~IsNone(first) /\ pc \in {"done", "raised"}

\* C13: two runs of the enrichment against the same installed list, the same
\* outdated list and the same registry answers end the same way, and their
\* dependency reports are equal in every field of every entry except
\* current_time.
C13_Idempotent ==
    SecondRunOver =>
        /\ (pc = "done") = ~IsNone(first.returned)
        /\ pc = "done" =>
            SameReport(first.returned.dependency_info,
                       returned.dependency_info)

C13_Witness ==
    /\ SecondRunOver
    /\ pc = "done"
    /\ \E n \in DOMAIN returned.dependency_info :
        /\ ~IsNone(returned.dependency_info[n].installed_version_time)
        /\ returned.dependency_info[n].current_time
                # first.returned.dependency_info[n].current_time
        /\ ~returned.dependency_info[n].is_latest

\* position of an external step in the order of run(): lines 359-371
Rank(step) ==
    CASE step = "freeze" -> 1
      [] step = "uninstall" -> 2
      [] step = "install" -> 3
      [] step = "list" -> 4
      [] step = "list -o" -> 5
      [] step = "pypi" -> 6
      [] step = "check" -> 7

\* the steps taken so far follow the order of run(); only the registry
\* lookup repeats
InOrder ==
    \A j, k \in 1..Len(invoked) :
        j < k =>
            \/ Rank(invoked[j].step) < Rank(invoked[k].step)
            \/ invoked[j].step = "pypi" /\ invoked[k].step = "pypi"

\* the enrichment ran to its end: both listings and one lookup for every
\* package of the installed list
EnrichmentComplete ==
    /\ Ran("list")
    /\ Ran("list -o")
    /\ Cardinality(Steps("pypi")) = Len(pip_list_result)

Over == pc \in {"done", "raised"}

\* C14: in every run the external steps are invoked as a subsequence of
\* freeze, uninstall, install, list, list -o, registry lookups, check, each
\* pip command at most once and none re-entered; whenever install exits
\* zero the whole enrichment completes before the check is invoked, and the
\* check is then always invoked.
C14_FixedOrder ==
    /\ InOrder
    /\ Ran("check") => EnrichmentComplete
    /\ (Over /\ InstallOk) => Ran("check")

\* C15: if the install command exits non-zero the run ends with the install
\* step: install is the last external step ever invoked (no list, list -o,
\* registry lookup or check follows), and the run returns a result of kind
\* INSTALL_ERROR.
C15_InstallFailureShortCircuits ==
    InstallFailed =>
        /\ pc = "done"
        /\ LastStep.step = "install"
        /\ ~Ran("list") /\ ~Ran("list -o") /\ ~Ran("pypi") /\ ~Ran("check")
        /\ returned.result_type = INSTALL_ERROR
        /\ IsNone(returned.dependency_info)

\* a run with the clean steps done, whose install failed
C15_Witness ==
    /\ InstallFailed
    /\ pc = "done"
    /\ Ran("freeze") /\ Ran("uninstall")
    /\ returned.result_type = INSTALL_ERROR
    /\ Len(invoked) = 3

\* the clean steps of the run are behind it
CleanDecided == pc \notin {"run", "freeze", "uninstall"}

FreezeOutput == files[Join(OutputDirectory, "requirements-old.txt")]

\* C16 as stated: with the clean flag false neither freeze nor uninstall is
\* ever invoked; with it true freeze is invoked once before install, and
\* uninstall is invoked if and only if the captured freeze output is
\* non-empty.
C16_UninstallIffOutput ==
    /\ ~clean => ~Ran("freeze") /\ ~Ran("uninstall")
    /\ (clean /\ CleanDecided) =>
        /\ Cardinality(Steps("freeze")) = 1
        /\ Ran("uninstall") <=> FreezeOutput # Text("")

\* C16 amended: with the clean flag false neither freeze nor uninstall is
\* ever invoked; with it true freeze is invoked once, first of all steps,
\* and uninstall is invoked (once, right after freeze, on the file freeze
\* wrote) if and only if freeze exited zero and its captured output is
\* non-empty; install is invoked only after both.
C16_UninstallIffFreezeOkAndOutput ==
    /\ ~clean => ~Ran("freeze") /\ ~Ran("uninstall")
    /\ (clean /\ CleanDecided) =>
        /\ Steps("freeze") = {1}
        /\ Cardinality(Steps("uninstall")) <= 1
        /\ Ran("uninstall") <=>
            (ExitOf("freeze") = 0 /\ FreezeOutput # Text(""))
        /\ Ran("uninstall") =>
            /\ Steps("uninstall") = {2}
            /\ invoked[2].what = PipCommand \o
                <<"uninstall", "--yes", "-r",
                  Join(OutputDirectory, "requirements-old.txt")>>
            /\ FreezeOutput = invoked[1].proc.out
        /\ Ran("install") =>
            \A k \in Steps("install") :
                \A j \in Steps("freeze") \cup Steps("uninstall") : j < k

\* a clean run whose freeze listed packages: uninstall ran on them, then
\* install
C16_Witness ==
    /\ clean
    /\ Ran("install")
    /\ Steps("freeze") = {1}
    /\ Steps("uninstall") = {2}
    /\ ExitOf("freeze") = 0
    /\ FreezeOutput # Text("")

\* C17: the outdated list is a delta, not an inventory: the keys of the
\* dependency report are names of the installed list, and all of them once
\* the enrichment has returned; each entry's installed_version is the
\* version of the installed list; a package that appears only in the
\* outdated list has no entry.
C17_OutdatedIsDelta ==
    Ran("list -o") =>
        /\ DOMAIN Report \subseteq InstalledNames
        /\ pc \in {"check", "done"} => DOMAIN Report = InstalledNames
        /\ \A n \in DOMAIN Report :
            Report[n].installed_version = InstalledVersion(n)
        /\ pc # "raised" =>
            \A n \in OutdatedNames \ InstalledNames : n \notin DOMAIN Report

\* a returned report of a run whose outdated list names a package that is
\* not installed and an installed package at another version
C17_Witness ==
    /\ pc = "done"
    /\ Ran("list -o")
    /\ OutdatedNames \ InstalledNames # {}
    /\ \E n \in InstalledNames \cap OutdatedNames :
        /\ n \in DOMAIN returned.dependency_info
        /\ returned.dependency_info[n].latest_version
                # returned.dependency_info[n].installed_version

\* the versions of lines 312-319 for an installed package
LatestVersion(n) ==
    IF n \in DOMAIN outdated_pkgs THEN outdated_pkgs[n] ELSE InstalledVersion(n)

VersionUrl(n, v) == PYPI_URL \o n \o "/" \o v \o "/json"

Requested(url) == \E k \in Steps("pypi") : invoked[k].what = url

\* the upload time of the first file of version v in a "releases" field
FirstUpload(releases, v) ==
    IF v \in DOMAIN releases /\ releases[v].list # <<>>
    THEN releases[v].list[1].upload_time ELSE None

\* C18 as stated: for every package of the report whose installed and
\* latest versions differ, the registry received a lookup naming the
\* installed version and a lookup naming the latest version.
C18_BothVersionsQueried ==
    Ran("pypi") =>
        \A n \in DOMAIN Report :
            Report[n].installed_version # Report[n].latest_version =>
                /\ Requested(VersionUrl(n, Report[n].installed_version))
                /\ Requested(VersionUrl(n, Report[n].latest_version))

\* C18 amended: for each installed package the registry is queried once,
\* for the latest version; when the two versions differ no lookup names the
\* installed version; when the response has a "releases" field,
\* installed_version_time is the upload time of the first file that this
\* same response lists for the installed version (null if it lists none).
C18_OneLookupNamingLatest ==
    \A k \in Steps("pypi") :
        LET n == invoked[k].name
        IN  /\ invoked[k].what = VersionUrl(n, LatestVersion(n))
            /\ \A j \in Steps("pypi") : invoked[j].name = n => j = k
            /\ LatestVersion(n) # InstalledVersion(n) =>
                ~Requested(VersionUrl(n, InstalledVersion(n)))
            /\ (/\ invoked[k].answer.http = "ok"
                /\ "releases" \in DOMAIN invoked[k].answer.body
                /\ n \in DOMAIN Report) =>
                    Report[n].installed_version_time =
                        FirstUpload(invoked[k].answer.body.releases,
                                    InstalledVersion(n))

\* a returned entry of an outdated package whose installed release time was
\* read from the response to the lookup of the latest version
C18_Witness ==
    /\ pc = "done"
    /\ \E k \in Steps("pypi") :
        LET n == invoked[k].name
        IN  /\ n \in DOMAIN returned.dependency_info
            /\ LatestVersion(n) # InstalledVersion(n)
            /\ returned.dependency_info[n].installed_version_time
                    = UploadTime(n, InstalledVersion(n))
            /\ returned.dependency_info[n].latest_version_time
                    = UploadTime(n, LatestVersion(n))

\* C19: per-package isolation of the enrichment: a release time in the
\* snapshot of a package is a time the registry holds for that package (for
\* its installed version, for its latest version); no time of another
\* package is carried into it.
C19_OwnTimesOnly ==
    Ran("pypi") =>
        \A n \in DOMAIN Report :
            /\ Report[n].installed_version_time
                    \in {None, UploadTime(n, Report[n].installed_version)}
            /\ Report[n].latest_version_time
                    \in {None, UploadTime(n, Report[n].latest_version)}

(***************************************************************************)
(* Termination: every external command and every registry lookup returns,  *)
(* so a step of run() that can be taken is eventually taken                *)
(***************************************************************************)
\* every installed and outdated list, one registry answer of each shape
FairEnv == [ListEnv EXCEPT !.full = FALSE]
InitFair == InitOf(FairEnv)
NextFair == NextOf(FairEnv)
SpecFair == InitFair /\ [][NextFair]_vars /\ WF_vars(NextFair)

Lookups == Cardinality(Steps("pypi"))

\* C20: every run eventually reaches a terminal outcome, a returned result
\* or a raised failure, and the number of registry lookups issued never
\* exceeds the length of the installed list.
C20_Terminates ==
    /\ <>Over
    /\ [](Lookups <= Len(pip_list_result))

\* a run that returned after one lookup for each of two installed packages
C20_Witness ==
    /\ pc = "done"
    /\ ~IsNone(returned)
    /\ Len(pip_list_result) = 2
    /\ Lookups = 2

====
